---- MODULE Spec2Model ----
(***************************************************************************)
(* Model of the dynamic array of src/vector.c (type `vector`, vector.h).   *)
(*                                                                         *)
(* The heap is modelled as far as the vector can observe it: the inner     *)
(* buffer is a sequence of bytes (`store`) living at an address (`inner`), *)
(* and `sstate` says whether that block is allocated and who owns it.      *)
(* size_t is a WordBits-bit unsigned word.  Bytes the program never wrote  *)
(* (fresh realloc space, a released block) hold the marker U.              *)
(* Memory errors (a read or write through a dangling pointer, a write past *)
(* the end of a block, a second release) are recorded in `fault` for the   *)
(* step that commits them; the step itself acts as a build on a flat       *)
(* address space does (the access lands in the memory that is there, a     *)
(* read of released memory yields any bytes), and the process is then      *)
(* "undefined": the model follows it no further.                           *)
(* The caller keeps the element pointer of the latest vec_get or vec_push  *)
(* only until its next call (`ref`), as the pointer's contract demands.    *)
(***************************************************************************)
EXTENDS Integers, Sequences, FiniteSets, TLC

\* ---- bounds -------------------------------------------------------------
\* width of size_t in bits
WordBits == 4
\* largest block, in bytes, the allocator hands out; larger requests fail
MaxBytes == 6

WordMod == 2 ^ WordBits
Word == 0 .. (WordMod - 1)
\* the byte values callers store
Byte == {0, 1}
\* the addresses the allocator places the inner buffer at
Addr == {1, 2}
\* the element sizes vectors are created with
ElemSizes == {1, 2}
\* an indeterminate byte
U == -1

VARIABLES
    vec,          \* the caller's handle `vector*`: "live" or "null"
    elem_size,    \* vector.elem_size
    capacity,     \* vector.capacity
    len,          \* vector.len
    inner,        \* vector.inner: address of the inner buffer
    store,        \* the bytes of the block `inner` points to
    sstate,       \* that block: "owned", "freed", "leaked", "none"
    ref,          \* the element pointer the previous call returned, if any
    ret,          \* bytes of the buffer the last call returned to the caller
    last,         \* the last call: [op, idx, res, grew, afterPush]
    status,       \* the process: "running", "aborted" or "undefined"
    fault,        \* memory errors committed by the last call
    pushed,       \* elements pushed so far, while only pushes were made
    onlyPush,     \* TRUE while every call since vec_init was a push
    initElemSize, \* the sizeof_type given to vec_init
    structFrees,  \* number of releases of the vector struct
    innerFrees    \* number of releases of the inner buffer

buf == <<elem_size, capacity, len, inner, store, sstate>>
rel == <<structFrees, innerFrees>>
vars == <<vec, elem_size, capacity, len, inner, store, sstate, ref, ret, last,
          status, fault, pushed, onlyPush, initElemSize, structFrees,
          innerFrees>>

\* ---- memory helpers -----------------------------------------------------
\* the byte at offset off of block s (U outside the block)
ByteAt(s, off) ==
    IF off >= 0 /\ off < Len(s) THEN s[off + 1] ELSE U

\* n bytes of block s starting at offset off
ReadBytes(s, off, n) ==
    [k \in 1 .. n |-> ByteAt(s, off + k - 1)]

\* memmove(s + dst, bytes, Len(bytes)): the source is read before the write
Memmove(s, dst, bytes) ==
    [k \in 1 .. Len(s) |->
        IF (k - 1) >= dst /\ (k - 1) < dst + Len(bytes)
        THEN bytes[k - dst] ELSE s[k]]

\* a block whose content is indeterminate
Indeterminate(s) ==
    [k \in 1 .. Len(s) |-> U]

VEC_ADDR_OF(index) ==
    (index * elem_size) % WordMod

\* the bytes of element `index`
Slot(s, index) ==
    ReadBytes(s, index * elem_size, elem_size)

Elem == [1 .. elem_size -> Byte]

\* the element counts a caller asks vec_resize for: every one the allocator
\* can serve, one more, and two whose byte size can overflow the word
ResizeArgs ==
    {n \in Word : n <= MaxBytes + 1 \/ n = WordMod \div 2 \/ n = WordMod - 1}

\* the indices a caller passes: every valid one, the first invalid one
\* (index = len) and the largest word
Indices ==
    {i \in Word : i <= len \/ i = WordMod - 1}

NoRef == [set |-> FALSE, slot |-> 0]

\* the process after a call that committed the memory errors f
After(f, aborted) ==
    IF aborted THEN "aborted" ELSE IF f # {} THEN "undefined" ELSE "running"

\* the record of a call; afterPush marks a vec_pop made right after a
\* vec_push that succeeded
Call(op, idx, res, grew) ==
    [op |-> op, idx |-> idx, res |-> res, grew |-> grew,
     afterPush |-> (op = "pop" /\ last.op = "push" /\ last.res = "ok")]

\* ---- vec_init -----------------------------------------------------------
InitLive(c, es, a) ==
    /\ vec = "live"
    /\ elem_size = es
    /\ capacity = c
    /\ len = 0
    /\ inner = a
    /\ store = [k \in 1 .. (c * es) |-> 0]
    /\ sstate = "owned"

InitNull(es) ==
    /\ vec = "null"
    /\ elem_size = es
    /\ capacity = 0
    /\ len = 0
    /\ inner = 1
    /\ store = <<>>
    /\ sstate = "none"

Init ==
    /\ \E es \in ElemSizes :
          /\ initElemSize = es
          /\ \/ InitNull(es)
             \/ \E c \in Word, a \in Addr :
                   /\ c * es < WordMod
                   /\ c * es <= MaxBytes
                   /\ InitLive(c, es, a)
    /\ ref = NoRef
    /\ ret = <<>>
    /\ last = Call("init", 0, IF vec = "live" THEN "ok" ELSE "fail", FALSE)
    /\ status = "running"
    /\ fault = {}
    /\ pushed = <<>>
    /\ onlyPush = TRUE
    /\ structFrees = 0
    /\ innerFrees = 0

\* ---- reallocarray, as vec_resize sees it --------------------------------
\* (faulty variant) the length is not truncated to the new capacity
TruncLenKeep(l, n) ==
    l

\* vec->len after vec->capacity became n
TruncLen(l, n) ==
    IF n < l THEN n ELSE l

\* (faulty variant) the new block does not get the old content
ReallocCopyLose(s, size) ==
    [k \in 1 .. size |-> U]

\* the block reallocarray returns: the old content up to the new size
ReallocCopy(s, size) ==
    [k \in 1 .. size |-> IF k <= Len(s) THEN s[k] ELSE U]

\* the vector as it is, with the call reporting failure
Same(f) ==
    [res |-> FALSE, abort |-> FALSE, capacity |-> capacity, len |-> len,
     inner |-> inner, store |-> store, sstate |-> sstate, moved |-> FALSE,
     fault |-> f, rel |-> 0]

\* the process is stopped inside the allocator
Stopped(f) ==
    [Same(f) EXCEPT !.abort = TRUE]

\* reallocarray returned the block at address a, of n elements
Resized(n, a, f) ==
    [res |-> TRUE, abort |-> FALSE, capacity |-> n, len |-> TruncLen(len, n),
     inner |-> a, store |-> ReallocCopy(store, n * elem_size),
     sstate |-> "owned", moved |-> (a # inner), fault |-> f, rel |-> 0]

\* reallocarray(p, n, size) with n*size = 0 released p and returned NULL
ReleasedByRealloc(f) ==
    [Same(f) EXCEPT !.store = Indeterminate(store), !.sstate = "freed",
                    !.moved = TRUE, !.rel = 1]

\* every outcome of vec_resize(vec, n) on a live vector
ResizeOutcomes(n) ==
    LET total == n * elem_size IN
    IF total >= WordMod THEN {Same({})}
    ELSE IF sstate = "owned" THEN
        IF total = 0
        THEN {Same({}), ReleasedByRealloc({})}
                \cup {Resized(n, a, {}) : a \in Addr}
        ELSE {Same({})}
                \cup (IF total <= MaxBytes
                      THEN {Resized(n, a, {}) : a \in Addr} ELSE {})
    ELSE
        IF total = 0
        THEN {[Same({"double_free"}) EXCEPT !.rel = 1],
              Stopped({"double_free"})}
        ELSE {Same({"realloc_freed"}), Stopped({"realloc_freed"})}
                \cup (IF total <= MaxBytes
                      THEN {Resized(n, a, {"realloc_freed"}) : a \in Addr}
                      ELSE {})

\* a release counter after one more release (it stops counting at 2)
Bump(n) ==
    IF n >= 2 THEN 2 ELSE n + 1

\* the vector takes the state of outcome o
Take(o) ==
    /\ capacity' = o.capacity
    /\ len' = o.len
    /\ inner' = o.inner
    /\ store' = o.store
    /\ sstate' = o.sstate
    /\ innerFrees' = IF o.rel = 1 THEN Bump(innerFrees) ELSE innerFrees
    /\ UNCHANGED <<vec, elem_size, initElemSize, structFrees>>

\* abort(), or a failed assert(): the process ends, nothing else changes
Abort(op, idx) ==
    /\ status' = "aborted"
    /\ last' = Call(op, idx, "abort", FALSE)
    /\ fault' = {}
    /\ ref' = NoRef
    /\ ret' = <<>>
    /\ UNCHANGED <<vec, buf, rel, pushed, onlyPush, initElemSize>>

NotOnlyPush ==
    /\ pushed' = <<>>
    /\ onlyPush' = FALSE

ResRes(o) ==
    IF o.abort THEN "abort" ELSE IF o.res THEN "ok" ELSE "fail"

\* ---- vec_resize ---------------------------------------------------------
vec_resize ==
    /\ status = "running"
    /\ \E n \in ResizeArgs :
          IF vec = "null" THEN Abort("resize", n)
          ELSE \E o \in ResizeOutcomes(n) :
                  /\ Take(o)
                  /\ status' = After(o.fault, o.abort)
                  /\ last' = Call("resize", n, ResRes(o), FALSE)
                  /\ fault' = o.fault
                  /\ ref' = NoRef
                  /\ ret' = <<>>
                  /\ NotOnlyPush

\* ---- vec_grow -----------------------------------------------------------
\* new_capacity of vec_grow, computed in the word
GrowCapacity(c) ==
    ((c * 3) % WordMod) \div 2

\* (faulty variant) an equal capacity is taken for growth
GrowStallsLax(c, new) ==
    new < c

\* the overflow check of vec_grow
GrowStalls(c, new) ==
    new <= c

\* every outcome of vec_grow(vec) on a live vector
GrowOutcomes ==
    LET new_capacity == GrowCapacity(capacity) IN
    IF GrowStalls(capacity, new_capacity) THEN {Same({})}
    ELSE ResizeOutcomes(new_capacity)

vec_grow ==
    /\ status = "running"
    /\ IF vec = "null" THEN Abort("grow", 0)
       ELSE \E o \in GrowOutcomes :
               /\ Take(o)
               /\ status' = After(o.fault, o.abort)
               /\ last' = Call("grow", 0, ResRes(o), o.res)
               /\ fault' = o.fault
               /\ ref' = NoRef
               /\ ret' = <<>>
               /\ NotOnlyPush

\* ---- vec_push ----------------------------------------------------------
\* (faulty variant) a full vector is not grown
NeedsGrowLax(l, c) ==
    l > c

\* the test of vec_push for a full vector
NeedsGrow(l, c) ==
    l >= c

\* (faulty variant) vec_push writes over the last element
PushDstPrev(l) ==
    IF l > 0 THEN l - 1 ELSE 0

\* the element vec_push writes
PushDst(l) ==
    l

\* the memmove and the increment of vec_push, on the vector as outcome o
\* left it; e is the caller's element, or the caller's pointer `ref` is used
PushWrite(op, o, e, useRef, grew) ==
    LET srcGone == useRef /\ (o.moved \/ o.sstate # "owned")
        dst == PushDst(o.len)
    IN  \E bytes \in (IF ~useRef THEN {e}
                      ELSE IF srcGone THEN Elem
                      ELSE {Slot(o.store, ref.slot)}) :
           /\ capacity' = o.capacity
           /\ inner' = o.inner
           /\ sstate' = o.sstate
           /\ store' = Memmove(o.store, VEC_ADDR_OF(dst), bytes)
           /\ len' = o.len + 1
           /\ ref' = [set |-> TRUE, slot |-> dst]
           /\ fault' = o.fault
                        \cup (IF srcGone THEN {"read_released"} ELSE {})
                        \cup (IF o.sstate # "owned"
                              THEN {"write_released"} ELSE {})
           /\ last' = Call(op, 0, "ok", grew)
           /\ status' = After(fault', FALSE)
           /\ ret' = <<>>
           /\ IF onlyPush /\ ~useRef
              THEN pushed' = Append(pushed, bytes) /\ onlyPush' = TRUE
              ELSE NotOnlyPush
           /\ UNCHANGED <<vec, elem_size, initElemSize, rel>>

\* vec_push returns NULL (or the allocator stops the process) after outcome o
PushFail(op, o) ==
    /\ Take(o)
    /\ status' = After(o.fault, o.abort)
    /\ last' = Call(op, 0, ResRes(o), FALSE)
    /\ fault' = o.fault
    /\ ref' = NoRef
    /\ ret' = <<>>
    /\ UNCHANGED <<pushed, onlyPush>>

PushBody(op, e, useRef) ==
    IF vec = "null" THEN Abort(op, 0)
    ELSE IF NeedsGrow(len, capacity)
    THEN \E o \in GrowOutcomes :
            IF o.res THEN PushWrite(op, o, e, useRef, TRUE)
            ELSE PushFail(op, o)
    ELSE PushWrite(op, [Same({}) EXCEPT !.res = TRUE], e, useRef, FALSE)

\* vec_push(vec, element) with element in the caller's own memory
vec_push ==
    /\ status = "running"
    /\ \E e \in Elem : PushBody("push", e, FALSE)

\* vec_push(vec, p) with p the pointer a vec_get or vec_push returned
vec_push_ref ==
    /\ status = "running"
    /\ ref.set
    /\ PushBody("push_ref", <<>>, TRUE)

\* ---- vec_pop -----------------------------------------------------------
\* (faulty variant) the last element is not popped
PopEmptyLax(l) ==
    l <= 1

\* the test of vec_pop for an empty vector
PopEmpty(l) ==
    l = 0

vec_pop ==
    /\ status = "running"
    /\ IF vec = "null" THEN Abort("pop", 0)
       ELSE IF PopEmpty(len)
       THEN /\ last' = Call("pop", 0, "empty", FALSE)
            /\ ret' = <<>>
            /\ fault' = {}
            /\ ref' = NoRef
            /\ NotOnlyPush
            /\ UNCHANGED <<vec, buf, rel, status, initElemSize>>
       ELSE \/ /\ last' = Call("pop", 0, "fail", FALSE)
               /\ ret' = <<>>
               /\ fault' = {}
               /\ ref' = NoRef
               /\ NotOnlyPush
               /\ UNCHANGED <<vec, buf, rel, status, initElemSize>>
            \/ /\ ret' = Slot(store, len - 1)
               /\ len' = len - 1
               /\ last' = Call("pop", 0, "ok", FALSE)
               /\ fault' = IF sstate # "owned" THEN {"read_released"} ELSE {}
               /\ status' = After(fault', FALSE)
               /\ ref' = NoRef
               /\ NotOnlyPush
               /\ UNCHANGED <<vec, elem_size, capacity, inner, store, sstate,
                              rel, initElemSize>>

\* ---- vec_validate_idx --------------------------------------------------
\* (faulty variant) index = len passes the check
ValidIdxLax(index, l) ==
    index <= l

\* the bounds test of vec_validate_idx
ValidIdx(index, l) ==
    index < l

\* TRUE when vec_validate_idx(vec, index) returns instead of aborting
vec_validate_idx(index) ==
    vec # "null" /\ ValidIdx(index, len)

\* ---- vec_get -----------------------------------------------------------
vec_get ==
    /\ status = "running"
    /\ \E index \in Indices :
          IF ~vec_validate_idx(index) THEN Abort("get", index)
          ELSE /\ ref' = [set |-> TRUE, slot |-> index]
               /\ last' = Call("get", index, "ok", FALSE)
               /\ ret' = <<>>
               /\ fault' = {}
               /\ NotOnlyPush
               /\ UNCHANGED <<vec, buf, rel, status, initElemSize>>

\* ---- vec_remove --------------------------------------------------------
\* (faulty variant) one element too few is shifted
RemoveBytesShort(l, index) ==
    (((((l - 1) - index) - 1) % WordMod) * elem_size) % WordMod

\* nbytes of vec_remove
RemoveBytes(l, index) ==
    ((((l - 1) - index) % WordMod) * elem_size) % WordMod

vec_remove ==
    /\ status = "running"
    /\ \E index \in Indices :
          IF ~vec_validate_idx(index) THEN Abort("remove", index)
          ELSE /\ store' =
                    IF index # (len - 1)
                    THEN Memmove(store, VEC_ADDR_OF(index),
                                 ReadBytes(store, VEC_ADDR_OF(index + 1),
                                           RemoveBytes(len, index)))
                    ELSE store
               /\ len' = len - 1
               /\ last' = Call("remove", index, "ok", FALSE)
               /\ ret' = <<>>
               /\ fault' = IF sstate # "owned" /\ index # (len - 1)
                           THEN {"read_released", "write_released"} ELSE {}
               /\ status' = After(fault', FALSE)
               /\ ref' = NoRef
               /\ NotOnlyPush
               /\ UNCHANGED <<vec, elem_size, capacity, inner, sstate, rel,
                              initElemSize>>

\* ---- vec_swap_remove ---------------------------------------------------
\* (faulty variant) the first element is copied instead of the last
SwapSrcFirst(l) ==
    0

\* the element vec_swap_remove copies into the hole
SwapSrc(l) ==
    l - 1

vec_swap_remove ==
    /\ status = "running"
    /\ \E index \in Indices :
          IF ~vec_validate_idx(index) THEN Abort("swap_remove", index)
          ELSE /\ store' =
                    IF len >= 2
                    THEN Memmove(store, VEC_ADDR_OF(index),
                                 ReadBytes(store, VEC_ADDR_OF(SwapSrc(len)),
                                           elem_size))
                    ELSE store
               /\ len' = len - 1
               /\ last' = Call("swap_remove", index, "ok", FALSE)
               /\ ret' = <<>>
               /\ fault' = IF sstate # "owned" /\ len >= 2
                           THEN {"read_released", "write_released"} ELSE {}
               /\ status' = After(fault', FALSE)
               /\ ref' = NoRef
               /\ NotOnlyPush
               /\ UNCHANGED <<vec, elem_size, capacity, inner, sstate, rel,
                              initElemSize>>

\* ---- vec_clear ---------------------------------------------------------
\* vec_clear(NULL) dereferences NULL: the process ends
\* (faulty variant) the length is kept
ClearedLenKeep(l) ==
    l

\* vec->len after vec_clear
ClearedLen(l) ==
    0

vec_clear ==
    /\ status = "running"
    /\ IF vec = "null" THEN Abort("clear", 0)
       ELSE /\ len' = ClearedLen(len)
            /\ last' = Call("clear", 0, "ok", FALSE)
            /\ ret' = <<>>
            /\ fault' = {}
            /\ ref' = NoRef
            /\ NotOnlyPush
            /\ UNCHANGED <<vec, elem_size, capacity, inner, store, sstate,
                           rel, status, initElemSize>>

\* ---- vec_free ----------------------------------------------------------
\* the value vec_free leaves in the caller's handle
FreeNulls(h) ==
    "null"

vec_free ==
    /\ status = "running"
    /\ IF vec = "null"
       THEN /\ last' = Call("free", 0, "noop", FALSE)
            /\ ret' = <<>>
            /\ fault' = {}
            /\ ref' = NoRef
            /\ UNCHANGED <<vec, buf, rel, status, pushed, onlyPush,
                           initElemSize>>
       ELSE /\ vec' = FreeNulls(vec)
            /\ innerFrees' = Bump(innerFrees)
            /\ structFrees' = Bump(structFrees)
            /\ store' = Indeterminate(store)
            /\ sstate' = "freed"
            /\ fault' = IF sstate # "owned" THEN {"double_free"} ELSE {}
            /\ \/ status' = After(fault', FALSE)
               \/ sstate # "owned" /\ status' = "aborted"
            /\ last' = Call("free", 0,
                            IF status' = "aborted" THEN "abort" ELSE "ok",
                            FALSE)
            /\ ref' = NoRef
            /\ ret' = <<>>
            /\ NotOnlyPush
            /\ UNCHANGED <<elem_size, capacity, len, inner, initElemSize>>

\* ---- vec_leak ----------------------------------------------------------
\* (faulty variant) vec_leak releases the inner buffer with the struct
LeakedReleased(st) ==
    "freed"

\* the state of the inner buffer once vec_leak handed it to the caller
Leaked(st) ==
    IF st = "owned" THEN "leaked" ELSE st

vec_leak ==
    /\ status = "running"
    /\ IF vec = "null" THEN Abort("leak", 0)
       ELSE /\ vec' = "null"
            /\ structFrees' = Bump(structFrees)
            /\ sstate' = Leaked(sstate)
            /\ ret' = store
            /\ last' = Call("leak", 0, "ok", FALSE)
            /\ fault' = {}
            /\ ref' = NoRef
            /\ NotOnlyPush
            /\ UNCHANGED <<elem_size, capacity, len, inner, store,
                           innerFrees, status, initElemSize>>

\* ---- vec_to_str --------------------------------------------------------
\* (faulty variant) the terminator is written one byte further
TermOffsetNext(n) ==
    n % WordMod

\* the offset `len - 1` of the terminator vec_to_str writes, `len` being
\* the element count n it resized to
TermOffset(n) ==
    (n - 1) % WordMod

vec_to_str ==
    /\ status = "running"
    /\ IF vec = "null" THEN Abort("to_str", 0)
       ELSE LET n == (len + 1) % WordMod IN
            \E o \in ResizeOutcomes(n) :
               IF o.abort
               THEN /\ Take(o)
                    /\ status' = "aborted"
                    /\ last' = Call("to_str", 0, "abort", FALSE)
                    /\ fault' = o.fault
                    /\ ref' = NoRef
                    /\ UNCHANGED <<ret, pushed, onlyPush>>
               ELSE LET off == TermOffset(n)
                        str == IF off < Len(o.store)
                               THEN Memmove(o.store, off, <<0>>)
                               ELSE o.store
                    IN  /\ vec' = "null"
                        /\ capacity' = o.capacity
                        /\ len' = o.len
                        /\ inner' = o.inner
                        /\ store' = str
                        /\ sstate' = Leaked(o.sstate)
                        /\ innerFrees' = IF o.rel = 1 THEN Bump(innerFrees)
                                         ELSE innerFrees
                        /\ structFrees' = Bump(structFrees)
                        /\ ret' = str
                        /\ last' = Call("to_str", 0, "ok", o.res)
                        /\ fault' = o.fault
                             \cup (IF off >= Len(o.store)
                                   THEN {"write_past_end"} ELSE {})
                             \cup (IF o.sstate # "owned"
                                   THEN {"write_released"} ELSE {})
                        /\ ref' = NoRef
                        /\ status' = After(fault', FALSE)
                        /\ NotOnlyPush
                        /\ UNCHANGED <<elem_size, initElemSize>>

\* ---- vec_clone_str -----------------------------------------------------
\* (faulty variant) the last byte is not copied
CloneLenShort(l) ==
    IF l > 0 THEN l - 1 ELSE 0

\* the number of bytes vec_clone_str copies
CloneLen(l) ==
    l

vec_clone_str ==
    /\ status = "running"
    /\ IF vec = "null" THEN Abort("clone_str", 0)
       ELSE \/ /\ last' = Call("clone_str", 0, "fail", FALSE)
               /\ ret' = <<>>
               /\ fault' = {}
               /\ ref' = NoRef
               /\ NotOnlyPush
               /\ UNCHANGED <<vec, buf, rel, status, initElemSize>>
            \/ /\ (len + 1) <= MaxBytes + 1
               /\ ret' = Append(ReadBytes(store, 0, CloneLen(len)), 0)
               /\ last' = Call("clone_str", 0, "ok", FALSE)
               /\ fault' = IF sstate # "owned" /\ len > 0
                           THEN {"read_released"} ELSE {}
               /\ status' = After(fault', FALSE)
               /\ ref' = NoRef
               /\ NotOnlyPush
               /\ UNCHANGED <<vec, buf, rel, initElemSize>>

Next ==
    \/ vec_resize
    \/ vec_grow
    \/ vec_push
    \/ vec_push_ref
    \/ vec_pop
    \/ vec_get
    \/ vec_remove
    \/ vec_swap_remove
    \/ vec_clear
    \/ vec_free
    \/ vec_leak
    \/ vec_to_str
    \/ vec_clone_str

Spec == Init /\ [][Next]_vars

\* ---- properties ---------------------------------------------------------
\* the last call was op and it ended with res
Did(op, res) ==
    last.op = op /\ last.res = res

\* C1: whenever vec_resize reports failure, the buffer is exactly as before
\* the call: len, capacity, elem_size, the inner buffer (its address, its
\* being allocated and owned by the vector) and every byte are unchanged,
\* for every requested size, 0 and overflowing ones included.
ResizeFailureLeavesBuffer ==
    [][(last'.op = "resize" /\ last'.res = "fail") => UNCHANGED buf]_vars

\* C2: in every state of a live vector len <= capacity, and elem_size is
\* the size given to vec_init.
LenWithinCapacity ==
    vec = "live" => (len <= capacity /\ elem_size = initElemSize)

\* a shrinking vec_resize has truncated a non-empty vector to its capacity
LenWithinCapacityWitness ==
    /\ vec = "live"
    /\ Did("resize", "ok")
    /\ len = capacity
    /\ len >= 2
    /\ elem_size = 2

\* C3: after any sequence of pushes on a fresh vector, len is the number of
\* pushes that succeeded, element i holds the bytes of the i-th element
\* pushed (also after the pushes that grew the buffer), and a successful
\* push returns the pointer to element len - 1, the one it just filled.
PushesAreKept ==
    (vec = "live" /\ onlyPush) =>
        /\ len = Len(pushed)
        /\ \A i \in 0 .. (len - 1) : Slot(store, i) = pushed[i + 1]
        /\ Did("push", "ok") => ref = [set |-> TRUE, slot |-> len - 1]

\* four pushes, the last of which grew the buffer, of differing elements
PushesAreKeptWitness ==
    /\ vec = "live"
    /\ onlyPush
    /\ Did("push", "ok")
    /\ last.grew
    /\ len = 4
    /\ pushed[1] # pushed[2]
    /\ pushed[3] # pushed[4]

\* C4: with word arithmetic, vec_grow succeeds only when (capacity*3)/2
\* computed in the word exceeds capacity; the new capacity is then exactly
\* floor(capacity*3/2), computed without wraparound.  With capacity 0 or 1,
\* or when capacity*3 wraps, it reports failure; a failed vec_grow leaves
\* the buffer unchanged.  vec_grow never lowers the capacity.
GrowIsExact ==
    [][(last'.op = "grow" /\ vec = "live") =>
          /\ last'.res = "ok" =>
                /\ capacity' = (capacity * 3) \div 2
                /\ capacity' > capacity
                /\ capacity * 3 < WordMod
          /\ (capacity <= 1 \/ capacity * 3 >= WordMod) => last'.res = "fail"
          /\ last'.res = "fail" => UNCHANGED buf
          /\ capacity' >= capacity]_vars

\* vec_grow has failed on a capacity whose triple wraps around the word
GrowIsExactWitness ==
    /\ vec = "live"
    /\ Did("grow", "fail")
    /\ capacity * 3 >= WordMod
    /\ sstate = "owned"

\* C5: vec_push(vec, p) with p a valid pointer to element i of the same
\* vector appends a copy of element i's bytes and reads no released
\* storage, also when len = capacity and the push first grows the buffer.
PushOfOwnElementIsSafe ==
    [][(last'.op = "push_ref" /\ last'.res = "ok" /\ sstate = "owned") =>
          /\ Slot(store', len) = Slot(store, ref.slot)
          /\ "read_released" \notin fault']_vars

\* C6: a push reports failure exactly when len = capacity and the growth
\* fails; a failed push leaves the buffer unchanged; a push with
\* len < capacity succeeds and changes neither capacity nor the buffer's
\* address; a successful push at len = capacity has grown the buffer.
PushFailsOnlyWhenGrowFails ==
    [][(last'.op \in {"push", "push_ref"} /\ vec = "live") =>
          /\ last'.res = "fail" => (len = capacity /\ UNCHANGED buf)
          /\ len < capacity =>
                /\ last'.res = "ok"
                /\ ~last'.grew
                /\ UNCHANGED <<capacity, inner, sstate>>
          /\ (last'.res = "ok" /\ len >= capacity) =>
                /\ last'.grew
                /\ capacity' = (capacity * 3) \div 2
                /\ capacity' > len
          /\ last'.res = "ok" => len' = len + 1]_vars

\* a push on a full vector of at least two elements has failed
PushFailsOnlyWhenGrowFailsWitness ==
    /\ vec = "live"
    /\ Did("push", "fail")
    /\ len = capacity
    /\ len >= 2
    /\ sstate = "owned"

\* C7: vec_remove(vec, i) with i < len decreases len by one, leaves the
\* elements before i unchanged and makes element j, for i <= j < new len,
\* the old element j + 1; with i = len - 1 no byte is moved.
RemoveShiftsLeft ==
    [][(last'.op = "remove" /\ last'.res = "ok") =>
          LET i == last'.idx IN
          /\ i < len
          /\ len' = len - 1
          /\ \A j \in 0 .. (len' - 1) :
                Slot(store', j) = IF j < i THEN Slot(store, j)
                                  ELSE Slot(store, j + 1)
          /\ i = len - 1 => store' = store
          /\ UNCHANGED <<elem_size, capacity, inner>>]_vars

\* element 0 of a vector of two-byte elements was removed and the two
\* elements that are left differ
RemoveShiftsLeftWitness ==
    /\ Did("remove", "ok")
    /\ last.idx = 0
    /\ len >= 2
    /\ elem_size = 2
    /\ sstate = "owned"
    /\ Slot(store, 0) # Slot(store, 1)

\* C8: vec_swap_remove(vec, i) with i < len decreases len by one, leaves in
\* element i (when i < new len) the bytes of the former last element and
\* leaves every other element below the new len unchanged; with
\* i = len - 1 it only decrements len.
SwapRemoveMovesLast ==
    [][(last'.op = "swap_remove" /\ last'.res = "ok") =>
          LET i == last'.idx IN
          /\ i < len
          /\ len' = len - 1
          /\ \A j \in 0 .. (len' - 1) :
                Slot(store', j) = IF j = i THEN Slot(store, len - 1)
                                  ELSE Slot(store, j)
          /\ i = len - 1 => store' = store
          /\ UNCHANGED <<elem_size, capacity, inner>>]_vars

\* element 1 of at least four was swap-removed, and the element that took
\* its place differs from its neighbours
SwapRemoveMovesLastWitness ==
    /\ Did("swap_remove", "ok")
    /\ last.idx = 1
    /\ len >= 3
    /\ sstate = "owned"
    /\ Slot(store, 1) # Slot(store, 0)
    /\ Slot(store, 1) # Slot(store, 2)

\* C9: vec_get, vec_remove and vec_swap_remove abort the process exactly
\* when the handle is NULL or index >= len; the aborting call changes
\* nothing of the vector and returns no value.
IndexingAborts ==
    [][(last'.op \in {"get", "remove", "swap_remove"}) =>
          /\ (status' = "aborted") <=> (vec = "null" \/ last'.idx >= len)
          /\ (last'.res = "abort") <=> (status' = "aborted")
          /\ status' = "aborted" =>
                /\ UNCHANGED <<vec, buf>>
                /\ ref' = NoRef
                /\ ret' = <<>>]_vars

\* vec_get with index = len aborted on a vector that holds elements
IndexingAbortsWitness ==
    /\ status = "aborted"
    /\ Did("get", "abort")
    /\ vec = "live"
    /\ len >= 1
    /\ last.idx = len

\* C10: after vec_free, vec_leak or vec_to_str returned the handle is NULL,
\* and over all the calls on one handle the vector struct and the inner
\* buffer are each released at most once.
HandleReleasedOnce ==
    /\ (last.op \in {"free", "leak", "to_str"} /\ last.res \in {"ok", "noop"})
            => vec = "null"
    /\ structFrees <= 1
    /\ innerFrees <= 1
\* C11: vec_clone_str called with a NULL handle returns NULL to the caller,
\* as it does when its allocation fails; the process is not aborted.
CloneOfNullReturnsNull ==
    [][(last'.op = "clone_str" /\ vec = "null") =>
          /\ status' = "running"
          /\ last'.res = "fail"
          /\ ret' = <<>>]_vars
\* C12: vec_to_str on a live vector of one-byte elements with len = n,
\* whatever its capacity, returns, when its vec_resize succeeds, a block
\* of exactly n + 1 bytes: the n elements in order, then a zero byte; the
\* caller's handle is NULL afterwards.
ToStrTerminates ==
    [][(last'.op = "to_str" /\ last'.res = "ok" /\ last'.grew
            /\ vec = "live" /\ elem_size = 1) =>
          /\ Len(ret') = len + 1
          /\ \A i \in 1 .. len : ret'[i] = store[i]
          /\ ret'[len + 1] = 0
          /\ store' = ret'
          /\ vec' = "null"]_vars

\* vec_to_str has resized a vector of three bytes, not all equal, and
\* returned its string of four bytes
ToStrTerminatesWitness ==
    /\ Did("to_str", "ok")
    /\ last.grew
    /\ vec = "null"
    /\ elem_size = 1
    /\ sstate = "leaked"
    /\ Len(ret) = 4
    /\ ret[1] # ret[2]
    /\ ret[3] = 1
    /\ ret[4] = 0
\* C13: a successful vec_resize(vec, n) sets capacity to n and len to
\* min(old len, n) and leaves the bytes of every element below
\* min(old len, n) unchanged, for n below and above the old capacity.
ResizeKeepsPrefix ==
    [][(last'.op = "resize" /\ last'.res = "ok") =>
          LET n == last'.idx
              m == IF len < n THEN len ELSE n
          IN  /\ capacity' = n
              /\ len' = m
              /\ Len(store') = n * elem_size
              /\ \A j \in 0 .. (m - 1) : Slot(store', j) = Slot(store, j)
              /\ elem_size' = elem_size]_vars

\* a vec_resize to two elements has left a full vector of two two-byte
\* elements that differ
ResizeKeepsPrefixWitness ==
    /\ Did("resize", "ok")
    /\ last.idx = 2
    /\ elem_size = 2
    /\ capacity = 2
    /\ len = 2
    /\ sstate = "owned"
    /\ Slot(store, 0) # Slot(store, 1)
    /\ Slot(store, 1) # <<0, 0>>
\* C14: in any state, a successful vec_push of an element e followed at
\* once by a successful vec_pop returns a copy whose bytes are e and
\* restores len and the bytes of every element below the original len.
\* Stated over the two steps: the push stores e as element `len`, adds one
\* to len and keeps the elements below; the pop that follows returns the
\* bytes of the last element, takes one from len and keeps the elements
\* below.
PushThenPopIsIdentity ==
    [][/\ (last'.op = "push" /\ last'.res = "ok") =>
             \A e \in Elem :
                PushBody("push", e, FALSE) =>
                   /\ len' = len + 1
                   /\ Slot(store', len) = e
                   /\ \A j \in 0 .. (len - 1) :
                         Slot(store', j) = Slot(store, j)
       /\ (last'.op = "pop" /\ last'.res = "ok" /\ last'.afterPush) =>
                /\ ret' = Slot(store, len - 1)
                /\ len' = len - 1
                /\ \A j \in 0 .. (len' - 1) : Slot(store', j) = Slot(store, j)
      ]_vars

\* a vec_pop right after a vec_push has returned a two-byte element of
\* differing bytes from a vector that still holds elements
PushThenPopIsIdentityWitness ==
    /\ Did("pop", "ok")
    /\ last.afterPush
    /\ elem_size = 2
    /\ ret = <<0, 1>>
    /\ len >= 1
    /\ sstate = "owned"
\* C15: vec_pop on an empty vector returns the empty result and changes
\* nothing; a vec_pop whose allocation fails returns failure and changes
\* nothing; a successful vec_pop returns the last element, decreases len
\* by one and leaves capacity and the buffer unchanged.
PopLosesNothing ==
    [][(last'.op = "pop" /\ vec = "live") =>
          /\ (last'.res = "empty") <=> (len = 0)
          /\ last'.res \in {"empty", "fail"} =>
                (UNCHANGED <<vec, buf>> /\ ret' = <<>>)
          /\ last'.res = "ok" =>
                /\ len' = len - 1
                /\ ret' = Slot(store, len - 1)
                /\ UNCHANGED <<vec, elem_size, capacity, inner, store, sstate>>
          /\ last'.res \in {"empty", "fail", "ok"}]_vars

\* the allocation of vec_pop has failed on a vector that holds elements
PopLosesNothingWitness ==
    /\ Did("pop", "fail")
    /\ vec = "live"
    /\ len >= 2
    /\ sstate = "owned"
    /\ Slot(store, len - 1) # Slot(store, 0)
\* C16: vec_leak returns the inner buffer as it is, of exactly capacity
\* elements (not cut to len), changes no byte of it and releases the
\* vector struct only: a buffer the vector owned is left allocated, owned
\* by the caller.
LeakReturnsWholeBuffer ==
    [][(last'.op = "leak" /\ last'.res = "ok") =>
          /\ Len(store) = capacity * elem_size
          /\ ret' = store
          /\ store' = store
          /\ Len(ret') = capacity * elem_size
          /\ sstate' = IF sstate = "owned" THEN "leaked" ELSE sstate
          /\ structFrees' = structFrees + 1
          /\ innerFrees' = innerFrees
          /\ vec' = "null"
          /\ UNCHANGED <<elem_size, capacity, len, inner>>]_vars

\* vec_leak has returned a buffer of more elements than the vector held,
\* after a growth to six one-byte elements
LeakReturnsWholeBufferWitness ==
    /\ Did("leak", "ok")
    /\ sstate = "leaked"
    /\ vec = "null"
    /\ elem_size = 1
    /\ capacity = 6
    /\ len = 5
    /\ Len(ret) = 6
    /\ ret[1] # ret[2]
\* C17: vec_clone_str on a live vector of one-byte elements with len = n
\* returns, when it succeeds, a new block of n + 1 bytes: the n elements,
\* then a zero byte; whether it succeeds or its allocation fails, the
\* vector (len, capacity, buffer, bytes) is unchanged and the handle stays
\* valid.
CloneStrCopies ==
    [][(last'.op = "clone_str" /\ vec = "live" /\ elem_size = 1) =>
          /\ UNCHANGED <<vec, buf, rel>>
          /\ last'.res \in {"ok", "fail"}
          /\ last'.res = "fail" => ret' = <<>>
          /\ last'.res = "ok" =>
                /\ Len(ret') = len + 1
                /\ \A i \in 1 .. len : ret'[i] = store[i]
                /\ ret'[len + 1] = 0]_vars

\* vec_clone_str has copied three bytes, not all equal, of a vector of a
\* larger capacity
CloneStrCopiesWitness ==
    /\ Did("clone_str", "ok")
    /\ vec = "live"
    /\ elem_size = 1
    /\ sstate = "owned"
    /\ len = 3
    /\ capacity > 3
    /\ ret = <<1, 0, 1, 0>>
\* C18: vec_clear sets len to 0 and leaves capacity, elem_size and the
\* inner buffer (address, allocation, bytes) unchanged; vec_get, vec_pop,
\* vec_remove, vec_swap_remove and vec_clear never change capacity nor the
\* address, size or ownership of the inner buffer; so after vec_clear every
\* push made while len < capacity succeeds without growing the buffer.
ClearKeepsStorage ==
    [][/\ last'.op \in {"get", "pop", "remove", "swap_remove", "clear"} =>
             /\ UNCHANGED <<vec, elem_size, capacity, inner, sstate, rel>>
             /\ Len(store') = Len(store)
       /\ (last'.op = "clear" /\ last'.res = "ok") =>
             /\ len' = 0
             /\ store' = store
       /\ (last'.op = "push" /\ vec = "live" /\ len < capacity) =>
             /\ last'.res = "ok"
             /\ ~last'.grew
             /\ UNCHANGED <<capacity, inner, sstate>>
      ]_vars

\* vec_clear has emptied a vector of capacity 3 or more whose buffer still
\* holds the old bytes
ClearKeepsStorageWitness ==
    /\ Did("clear", "ok")
    /\ vec = "live"
    /\ len = 0
    /\ capacity >= 3
    /\ sstate = "owned"
    /\ store[1] = 1
    /\ store[3] = 1
\* C19: whenever vec_to_str returns, also when its internal vec_resize to
\* len + 1 reported failure, the terminating zero byte was written inside the
\* buffer handed to the caller, and that buffer is still allocated.
ToStrWritesInside ==
    Did("to_str", "ok") =>
       /\ "write_past_end" \notin fault
       /\ "write_released" \notin fault
       /\ sstate = "leaked"
       /\ TermOffset((len + 1) % WordMod) < Len(ret)
\* C20: a vector whose capacity is 0 or 1 never gains capacity through
\* vec_push or vec_grow: vec_grow fails and changes nothing, every vec_push
\* made while len = capacity (all of them at capacity 0, those at len = 1 for
\* capacity 1) fails in one step and changes nothing; while the vector lives
\* only a successful vec_resize raises the capacity.
SmallCapacityStalls ==
    [][(vec = "live" /\ capacity <= 1) =>
          /\ last'.op \in {"push", "push_ref", "grow"} =>
                /\ capacity' = capacity
                /\ ~last'.grew
          /\ last'.op = "grow" =>
                /\ last'.res = "fail"
                /\ UNCHANGED <<vec, buf, rel>>
          /\ (last'.op \in {"push", "push_ref"} /\ len = capacity) =>
                /\ last'.res = "fail"
                /\ ret' = <<>>
                /\ status' = "running"
                /\ UNCHANGED <<vec, buf, rel>>
          /\ (vec' = "live" /\ capacity' > capacity) =>
                (last'.op = "resize" /\ last'.res = "ok")
      ]_vars

\* a push on a full vector of capacity 1 has failed and left it as it was
SmallCapacityStallsWitness ==
    /\ Did("push", "fail")
    /\ vec = "live"
    /\ capacity = 1
    /\ len = 1
    /\ sstate = "owned"
    /\ Len(store) = elem_size
    /\ status = "running"
====
